---- MODULE Spec2Model ----
(***************************************************************************)
(* Aggregation pipeline of dynamic_camper_parking_ai.py:                   *)
(* DynamicParkingFinder (_deduplicate_spots, _filter_spots, the result     *)
(* cache, find_parking_spots) and DynamicCamperParkingAI.search_parking.   *)
(*                                                                         *)
(* Units.  Coordinates of a ScrapedParkingSpot are whole metres north      *)
(* (latitude) and east (longitude) of a reference point, so that the       *)
(* distance of two spots is a planar distance in whole metres and the      *)
(* 0.1 km threshold is 100.  Confidences are percent (0.8 -> 80), heights  *)
(* are decimetres (3.2 m -> 32), weights are tenths of a ton, times are    *)
(* whole seconds.  An Optional[float] is a sequence of length 0 (None) or  *)
(* 1 (the number).  Geocoded coordinates are multiples of 0.00001 degree.  *)
(***************************************************************************)
EXTENDS Integers, Sequences, FiniteSets, TLC

VARIABLES
    arg_spots,      \* argument `spots` of the pure function under check,
                    \* or the answers a connector gets from its source
    arg_reqs,       \* argument `reqs` of _filter_spots
    ret_spots,      \* list returned by the first call, or what a
                    \* connector's search_parking_spots did
    ret_again,      \* list returned by the call on ret_spots
    pc,             \* position of the pure-function driver
    cache,          \* DynamicParkingFinder.cache : key -> (data, timestamp)
    now,            \* time.time()
    default_params, \* DynamicCamperParkingAI.default_params
    result,         \* dict returned by the last search_parking
    trace,          \* what the last find_parking_spots did
    calls,          \* locals of the interleaved find_parking_spots calls
    stored_by       \* callers in the order they stored into the cache

vars == <<arg_spots, arg_reqs, ret_spots, ret_again, pc,
          cache, now, default_params, result, trace, calls, stored_by>>

pureVars == <<arg_spots, arg_reqs, ret_spots, ret_again, pc>>
sysVars == <<cache, now, default_params, result, trace, calls, stored_by>>
concVars == <<calls, stored_by>>

----------------------------------------------------------------------------
(* Bounds *)

MaxLen == 3          \* longest input of _deduplicate_spots
MaxFilterLen == 2    \* longest input of _filter_spots
MaxTime == 3601      \* the clock stops advancing here
MaxCallers == 2      \* interleaved calls of find_parking_spots
MaxElements == 2     \* most elements in one response of a source

----------------------------------------------------------------------------
(* Python helpers *)

None == <<>>
Some(x) == <<x>>

\* truth value of an Optional[float]: None and 0 are false
Truthy(opt) == opt # None /\ opt[1] # 0

\* list.remove(x): removes the first element equal to x
RECURSIVE ListRemove(_, _)
ListRemove(list, x) ==
    IF list = <<>> THEN <<>>
    ELSE IF Head(list) = x THEN Tail(list)
    ELSE <<Head(list)>> \o ListRemove(Tail(list), x)

\* sequences over S of length at most n
SeqUpTo(S, n) == UNION {[1..k -> S] : k \in 0..n}

\* floor of the square root: the least r at or above `from` with (r+1)^2 > n
RECURSIVE ISqrtFrom(_, _)
ISqrtFrom(n, from) ==
    IF (from + 1) * (from + 1) > n THEN from ELSE ISqrtFrom(n, from + 1)

\* the greatest multiple r of `step` at or above `from` with r^2 <= n
RECURSIVE ISqrtCoarse(_, _, _)
ISqrtCoarse(n, from, step) ==
    IF (from + step) * (from + step) > n THEN from
    ELSE ISqrtCoarse(n, from + step, step)

ISqrt(n) == ISqrtFrom(n, ISqrtCoarse(n, ISqrtCoarse(n, 0, 100), 10))

----------------------------------------------------------------------------
(* ScrapedParkingSpot and CamperRequirements *)

ScrapedParkingSpot(name, latitude, longitude, max_height, max_weight, has_facilities, overnight_allowed, source, confidence) ==
    [name |-> name, latitude |-> latitude, longitude |-> longitude,
     max_height |-> max_height, max_weight |-> max_weight,
     has_facilities |-> has_facilities,
     overnight_allowed |-> overnight_allowed,
     source |-> source, confidence |-> confidence]

CamperRequirements(height, weight, length, needs_facilities, needs_overnight, radius_km) ==
    [height |-> height, weight |-> weight, length |-> length,
     needs_facilities |-> needs_facilities,
     needs_overnight |-> needs_overnight, radius_km |-> radius_km]

----------------------------------------------------------------------------
(* DynamicParkingFinder._calculate_distance, in whole metres *)

_calculate_distance(lat1, lon1, lat2, lon2) ==
    LET dlat == lat2 - lat1
        dlon == lon2 - lon1
    IN  ISqrt(dlat * dlat + dlon * dlon)

DuplicateDistance == 100

\* IsDuplicateOf with `<=` for `<`
IsDuplicateOf_Inclusive(spot, existing) ==
    _calculate_distance(spot.latitude, spot.longitude,
                        existing.latitude, existing.longitude)
        <= DuplicateDistance

IsDuplicateOf(spot, existing) ==
    _calculate_distance(spot.latitude, spot.longitude,
                        existing.latitude, existing.longitude)
        < DuplicateDistance

----------------------------------------------------------------------------
(* DynamicParkingFinder._deduplicate_spots *)

\* FirstMatch that scans the whole list and keeps the last match
FirstMatch_LastMatch(unique_spots, spot) ==
    IF \E i \in 1..Len(unique_spots) : IsDuplicateOf(spot, unique_spots[i])
    THEN CHOOSE i \in 1..Len(unique_spots) :
            /\ IsDuplicateOf(spot, unique_spots[i])
            /\ \A j \in (i + 1)..Len(unique_spots) :
                    ~IsDuplicateOf(spot, unique_spots[j])
    ELSE 0

\* index of the first accepted spot the inner loop stops at, 0 if none
FirstMatch(unique_spots, spot) ==
    IF \E i \in 1..Len(unique_spots) : IsDuplicateOf(spot, unique_spots[i])
    THEN CHOOSE i \in 1..Len(unique_spots) :
            /\ IsDuplicateOf(spot, unique_spots[i])
            /\ \A j \in 1..(i - 1) : ~IsDuplicateOf(spot, unique_spots[j])
    ELSE 0

\* DedupStep with `>=` for `>` in the confidence comparison
DedupStep_TieReplaces(unique_spots, spot) ==
    LET m == FirstMatch(unique_spots, spot) IN
    IF m = 0 THEN Append(unique_spots, spot)
    ELSE IF spot.confidence >= unique_spots[m].confidence
         THEN Append(ListRemove(unique_spots, unique_spots[m]), spot)
         ELSE unique_spots

\* DedupStep that puts the replacing record in the place of the old one
DedupStep_ReplacesInPlace(unique_spots, spot) ==
    LET m == FirstMatch(unique_spots, spot) IN
    IF m = 0 THEN Append(unique_spots, spot)
    ELSE IF spot.confidence > unique_spots[m].confidence
         THEN [unique_spots EXCEPT ![m] = spot]
         ELSE unique_spots

\* DedupStep with `<` for `>` in the confidence comparison
DedupStep_LowerReplaces(unique_spots, spot) ==
    LET m == FirstMatch(unique_spots, spot) IN
    IF m = 0 THEN Append(unique_spots, spot)
    ELSE IF spot.confidence < unique_spots[m].confidence
         THEN Append(ListRemove(unique_spots, unique_spots[m]), spot)
         ELSE unique_spots

\* DedupStep whose replacing record takes over the position of the old one
DedupStep_MovesToExisting(unique_spots, spot) ==
    LET m == FirstMatch(unique_spots, spot) IN
    IF m = 0 THEN Append(unique_spots, spot)
    ELSE IF spot.confidence > unique_spots[m].confidence
         THEN Append(ListRemove(unique_spots, unique_spots[m]),
                     [spot EXCEPT !.latitude = unique_spots[m].latitude,
                                  !.longitude = unique_spots[m].longitude])
         ELSE unique_spots

\* one iteration of the outer loop
DedupStep(unique_spots, spot) ==
    LET m == FirstMatch(unique_spots, spot) IN
    IF m = 0 THEN Append(unique_spots, spot)
    ELSE IF spot.confidence > unique_spots[m].confidence
         THEN Append(ListRemove(unique_spots, unique_spots[m]), spot)
         ELSE unique_spots

RECURSIVE DedupFrom(_, _)
DedupFrom(unique_spots, spots) ==
    IF spots = <<>> THEN unique_spots
    ELSE DedupFrom(DedupStep(unique_spots, Head(spots)), Tail(spots))

_deduplicate_spots(spots) == DedupFrom(<<>>, spots)

----------------------------------------------------------------------------
(* DynamicParkingFinder._filter_spots *)

\* FailsHeight with an absent max_height read as 0
FailsHeight_NoneIsZero(spot, reqs) ==
    (IF spot.max_height = None THEN 0 ELSE spot.max_height[1]) < reqs.height

\* `if spot.max_height and spot.max_height < reqs.height: continue`
FailsHeight(spot, reqs) ==
    Truthy(spot.max_height) /\ spot.max_height[1] < reqs.height

\* `if spot.max_weight and spot.max_weight < reqs.weight: continue`
FailsWeight(spot, reqs) ==
    Truthy(spot.max_weight) /\ spot.max_weight[1] < reqs.weight

\* `if reqs.needs_facilities and not spot.has_facilities: continue`
FailsFacilities(spot, reqs) ==
    reqs.needs_facilities /\ ~spot.has_facilities

\* `if reqs.needs_overnight and not spot.overnight_allowed: continue`
FailsOvernight(spot, reqs) ==
    reqs.needs_overnight /\ ~spot.overnight_allowed

RECURSIVE SuitableSpots(_, _)
SuitableSpots(spots, reqs) ==
    IF spots = <<>> THEN <<>>
    ELSE LET spot == Head(spots)
             rest == SuitableSpots(Tail(spots), reqs)
         IN  IF FailsHeight(spot, reqs) THEN rest
             ELSE IF FailsWeight(spot, reqs) THEN rest
             ELSE IF FailsFacilities(spot, reqs) THEN rest
             ELSE IF FailsOvernight(spot, reqs) THEN rest
             ELSE <<spot>> \o rest

\* InsertPosition of a sort that puts x before the elements of equal key
InsertPosition_BeforeTies(ordered, x) ==
    IF \E i \in 1..Len(ordered) : ordered[i].confidence <= x.confidence
    THEN CHOOSE i \in 1..Len(ordered) :
            /\ ordered[i].confidence <= x.confidence
            /\ \A j \in 1..(i - 1) : ordered[j].confidence > x.confidence
    ELSE Len(ordered) + 1

\* where sorted(..., reverse=True) puts x among the already ordered prefix:
\* after every element whose key is greater than or equal to its own
InsertPosition(ordered, x) ==
    IF \E i \in 1..Len(ordered) : ordered[i].confidence < x.confidence
    THEN CHOOSE i \in 1..Len(ordered) :
            /\ ordered[i].confidence < x.confidence
            /\ \A j \in 1..(i - 1) : ordered[j].confidence >= x.confidence
    ELSE Len(ordered) + 1

RECURSIVE SortedFrom(_, _)
SortedFrom(ordered, rest) ==
    IF rest = <<>> THEN ordered
    ELSE LET x == Head(rest)
             p == InsertPosition(ordered, x)
         IN  SortedFrom(SubSeq(ordered, 1, p - 1) \o <<x>>
                            \o SubSeq(ordered, p, Len(ordered)),
                        Tail(rest))

\* sorted(suitable_spots, key=lambda x: x.confidence, reverse=True)
SortedByConfidence(spots) == SortedFrom(<<>>, spots)

_filter_spots(spots, reqs) == SortedByConfidence(SuitableSpots(spots, reqs))

----------------------------------------------------------------------------
(* Inputs of the pure functions *)

DedupLatitudes == {0, 60, 120}
DedupLongitudes == {0, 80}
DedupConfidences == {70, 80, 95}

DedupSpots ==
    {ScrapedParkingSpot("P", lat, lon, None, None, FALSE, TRUE, "src", c) :
        lat \in DedupLatitudes, lon \in DedupLongitudes,
        c \in DedupConfidences}

FilterHeights == {None, Some(0), Some(30)}
FilterWeights == {None, Some(0), Some(35)}
FilterConfidences == {70, 80}

FilterSpots ==
    {ScrapedParkingSpot("P", 0, 0, s[1], s[2], s[3], s[4], "src", s[5]) :
        s \in FilterHeights \X FilterWeights \X BOOLEAN \X BOOLEAN
              \X FilterConfidences}

FilterReqs ==
    {CamperRequirements(r[1], r[2], 70, r[3], r[4], 10) :
        r \in {28, 32} \X {30, 40} \X BOOLEAN \X BOOLEAN}

NoReqs == CamperRequirements(0, 0, 0, FALSE, FALSE, 0)

----------------------------------------------------------------------------
(* State of the finder and of the assistant after construction *)

\* self.cache_duration
CacheDuration == 3600

\* cache_key = f"{lat:.4f}_{lon:.4f}_{camper_reqs.radius_km}": a coordinate
\* given in units of 0.00001 degree is printed with 4 decimals, that is
\* rounded to the nearest 0.0001 degree
Format4f(x) == (x + 5) \div 10

\* CacheKey without the radius
CacheKey_IgnoresRadius(lat, lon, radius_km) == <<Format4f(lat), Format4f(lon), 0>>

CacheKey(lat, lon, radius_km) == <<Format4f(lat), Format4f(lon), radius_km>>

\* `cache_key in self.cache`
InCache(c, key) == key \in DOMAIN c

\* IsFresh with `<=` for `<`
IsFresh_Inclusive(entry, t) == t - entry.timestamp <= CacheDuration

\* `time.time() - timestamp < self.cache_duration`
IsFresh(entry, t) == t - entry.timestamp < CacheDuration

\* CacheStore that drops the entries older than the cache duration
CacheStore_EvictsExpired(c, key, unique_spots, t) ==
    [k \in {e \in DOMAIN c : t - c[e].timestamp < 3600} \cup {key} |->
        IF k = key THEN [data |-> unique_spots, timestamp |-> t] ELSE c[k]]

\* CacheStore that keeps the entry a key already has
CacheStore_KeepsExisting(c, key, unique_spots, t) ==
    [k \in DOMAIN c \cup {key} |->
        IF k \in DOMAIN c THEN c[k]
        ELSE [data |-> unique_spots, timestamp |-> t]]

\* `self.cache[cache_key] = (unique_spots, time.time())`
CacheStore(c, key, unique_spots, t) ==
    [k \in DOMAIN c \cup {key} |->
        IF k = key THEN [data |-> unique_spots, timestamp |-> t] ELSE c[k]]

NoResult == [status |-> "none"]

\* What a call of find_parking_spots did: `call` alternates between 0 and
\* 1 from one call to the next, `present` and `entry_timestamp` are what
\* the lookup found, `invoked` lists the connectors called, `all_spots` is
\* the list given to _deduplicate_spots, `unique_spots` the deduplicated
\* list the filter was applied to and `spots` the list returned.
NoTrace ==
    [call |-> 0, geocoded |-> FALSE, key |-> <<>>, cache_read |-> FALSE,
     present |-> FALSE, entry_timestamp |-> 0, hit |-> FALSE,
     invoked |-> <<>>, raised |-> FALSE, cache_written |-> FALSE,
     lookup_time |-> 0, all_spots |-> <<>>, unique_spots |-> <<>>,
     spots |-> <<>>, coords |-> <<>>]

Callers == 1..MaxCallers

\* locals of a find_parking_spots call that has not started
IdleCall ==
    [pc |-> "idle", key |-> <<>>, hit |-> FALSE, invoked |-> <<>>,
     unique_spots |-> <<>>, spots |-> <<>>]

InitSys ==
    /\ cache = << >>
    /\ now = 0
    /\ default_params = [location |-> ""]
    /\ result = NoResult
    /\ trace = NoTrace
    /\ calls = [p \in Callers |-> IdleCall]
    /\ stored_by = <<>>

----------------------------------------------------------------------------
(* Specification of _deduplicate_spots on bounded inputs *)

InitDedup ==
    /\ arg_spots \in SeqUpTo(DedupSpots, MaxLen)
    /\ arg_reqs = NoReqs
    /\ ret_spots = <<>>
    /\ ret_again = <<>>
    /\ pc = "dedup"
    /\ InitSys

Deduplicate ==
    /\ pc = "dedup"
    /\ ret_spots' = _deduplicate_spots(arg_spots)
    /\ pc' = "deduplicated"
    /\ UNCHANGED <<arg_spots, arg_reqs, ret_again>>
    /\ UNCHANGED sysVars

DeduplicateAgain ==
    /\ pc = "deduplicated"
    /\ ret_again' = _deduplicate_spots(ret_spots)
    /\ pc' = "rededuplicated"
    /\ UNCHANGED <<arg_spots, arg_reqs, ret_spots>>
    /\ UNCHANGED sysVars

NextDedup == Deduplicate \/ DeduplicateAgain

SpecDedup == InitDedup /\ [][NextDedup]_vars

----------------------------------------------------------------------------
(* Specification of _filter_spots on bounded inputs *)

InitFilter ==
    /\ arg_spots \in SeqUpTo(FilterSpots, MaxFilterLen)
    /\ arg_reqs \in FilterReqs
    /\ ret_spots = <<>>
    /\ ret_again = <<>>
    /\ pc = "filter"
    /\ InitSys

Filter ==
    /\ pc = "filter"
    /\ ret_spots' = _filter_spots(arg_spots, arg_reqs)
    /\ pc' = "filtered"
    /\ UNCHANGED <<arg_spots, arg_reqs, ret_again>>
    /\ UNCHANGED sysVars

NextFilter == Filter

SpecFilter == InitFilter /\ [][NextFilter]_vars

----------------------------------------------------------------------------
(* Properties of _deduplicate_spots, under SpecDedup *)

Range(seq) == {seq[i] : i \in 1..Len(seq)}

\* C1: the list returned by _deduplicate_spots contains no two records
\* less than 0.1 km apart.
C1_NoTwoOutputsWithinThreshold ==
    pc = "deduplicated" =>
        \A i, j \in 1..Len(ret_spots) :
            i < j => ~IsDuplicateOf(ret_spots[i], ret_spots[j])

\* C2: deduplicating the output of _deduplicate_spots again returns exactly
\* the same records.
C2_DeduplicationIdempotent ==
    pc = "rededuplicated" => Range(ret_again) = Range(ret_spots)

\* C3: of exactly two records less than 0.1 km apart, the output is the one
\* record of strictly higher confidence, unchanged, whichever came first;
\* with equal confidences it is the record that came first.
C3_TwoDuplicatesKeepHigherConfidence ==
    (/\ pc = "deduplicated"
     /\ Len(arg_spots) = 2
     /\ IsDuplicateOf(arg_spots[2], arg_spots[1]))
    => ret_spots = << IF arg_spots[2].confidence > arg_spots[1].confidence
                      THEN arg_spots[2] ELSE arg_spots[1] >>

C3_Witness ==
    /\ pc = "deduplicated"
    /\ Len(arg_spots) = 2
    /\ IsDuplicateOf(arg_spots[2], arg_spots[1])
    /\ arg_spots[2].latitude # arg_spots[1].latitude
    /\ arg_spots[2].confidence > arg_spots[1].confidence
    /\ ret_spots = <<arg_spots[2]>>

----------------------------------------------------------------------------
(* Properties of _filter_spots, under SpecFilter *)

\* C4: _filter_spots retains a record iff (max_height absent or
\* max_height >= reqs.height) and (max_weight absent or
\* max_weight >= reqs.weight) and (not needs_facilities or has_facilities)
\* and (not needs_overnight or overnight_allowed), a recorded limit of 0
\* included.
C4_RetainedIffAllFourHold ==
    pc = "filtered" =>
        \A i \in 1..Len(arg_spots) :
            LET spot == arg_spots[i] IN
            (spot \in Range(ret_spots)) <=>
                /\ (spot.max_height = None
                        \/ spot.max_height[1] >= arg_reqs.height)
                /\ (spot.max_weight = None
                        \/ spot.max_weight[1] >= arg_reqs.weight)
                /\ (~arg_reqs.needs_facilities \/ spot.has_facilities)
                /\ (~arg_reqs.needs_overnight \/ spot.overnight_allowed)

\* C5: a record with no max_height is never removed by the height check,
\* whatever reqs.height is: it is returned whenever it passes the other
\* three checks; likewise a record with no max_weight and the weight check.
C5_AbsentLimitNeverDisqualifies ==
    pc = "filtered" =>
        \A i \in 1..Len(arg_spots) :
            LET spot == arg_spots[i]
                heightOk == spot.max_height = None
                                \/ spot.max_height[1] >= arg_reqs.height
                weightOk == spot.max_weight = None
                                \/ spot.max_weight[1] >= arg_reqs.weight
                flagsOk ==
                    /\ (~arg_reqs.needs_facilities \/ spot.has_facilities)
                    /\ (~arg_reqs.needs_overnight \/ spot.overnight_allowed)
            IN  /\ (spot.max_height = None /\ weightOk /\ flagsOk)
                        => spot \in Range(ret_spots)
                /\ (spot.max_weight = None /\ heightOk /\ flagsOk)
                        => spot \in Range(ret_spots)

C5_Witness ==
    /\ pc = "filtered"
    /\ arg_reqs.height = 32
    /\ arg_reqs.weight = 40
    /\ \E i \in 1..Len(arg_spots) :
        /\ arg_spots[i].max_height = None
        /\ arg_spots[i].max_weight = None
        /\ arg_spots[i] \in Range(ret_spots)

\* the records of seq with confidence c, in the order of seq
WithConfidence(seq, c) ==
    SelectSeq(seq, LAMBDA x : x.confidence = c)

\* C6: the list returned by _filter_spots is in non-increasing confidence
\* order, and retained records of equal confidence keep the relative order
\* they have in the input list.
C6_RankedByConfidenceStable ==
    pc = "filtered" =>
        /\ \A i, j \in 1..Len(ret_spots) :
            i < j => ret_spots[i].confidence >= ret_spots[j].confidence
        /\ \A c \in FilterConfidences :
            WithConfidence(ret_spots, c) =
                WithConfidence(
                    SelectSeq(arg_spots,
                              LAMBDA x : x \in Range(ret_spots)), c)

C6_Witness ==
    /\ pc = "filtered"
    /\ Len(arg_spots) = 2
    /\ Len(ret_spots) = 2
    /\ ret_spots[1].confidence = ret_spots[2].confidence
    /\ ret_spots[1] # ret_spots[2]
    /\ ret_spots = arg_spots

----------------------------------------------------------------------------
(* Inputs of a search: what the geocoder and the connectors answer *)

Locations == {"Helsinki"}

\* Nominatim answers: nothing (or a failure, both give None), or a
\* (lat, lon) pair; the first two pairs print to the same 4 decimals
GeocodeAnswers ==
    {None, <<6016990, 2493840>>, <<6016994, 2493840>>, <<6017500, 2493000>>}

OsmSpot ==
    ScrapedParkingSpot("Parking near", 0, 0, Some(30), None, FALSE, TRUE,
                       "OpenStreetMap", 80)
GoogleSpot ==
    ScrapedParkingSpot("Unnamed location", 60, 0, None, None, FALSE, FALSE,
                       "Google Places", 70)
CitySpot ==
    ScrapedParkingSpot("Helsinki Parking Spot", 120, 0, None, None, FALSE,
                       TRUE, "Helsinki Palvelukartta", 95)

\* OpenStreetMapScraper.search_parking_spots returns a list or lets an
\* error of _parse_osm_element escape (only RequestException and
\* JSONDecodeError are caught)
OsmAnswers == {"raise", <<>>, <<OsmSpot>>}
\* GooglePlacesScraper.search_parking_spots catches every Exception
GoogleAnswers == {<<>>, <<GoogleSpot>>}
\* CityWebsiteScraper.search_parking_spots catches every Exception
CityAnswers == {<<>>, <<CitySpot>>}

SearchHeights == {28, 32}
SearchRadii == {10}
\* seconds spent in the connectors between the lookup and the store (the
\* Nominatim and Google requests carry no timeout)
ScrapeDurations == {0, 3600}
\* seconds between two searches
Ticks == {3599, 3600, 3601}

----------------------------------------------------------------------------
(* DynamicParkingFinder.find_parking_spots *)

\* The outcome of one call is a record: the list returned (or `raised`),
\* the cache it leaves, the clock when it returns, and in `trace` what the
\* call did on the way.

\* a value that is not a number where the code expects one (None, a
\* string): arithmetic and `<` on it raise TypeError
NotANumber == -999999

\* _deduplicate_spots raises in the first _calculate_distance that gets a
\* coordinate that is not a number: with two records or more, the record
\* that has it is compared, or compared with, at the latest when it arrives
DedupRaises(spots) ==
    /\ Len(spots) >= 2
    /\ \E i \in 1..Len(spots) :
            \/ spots[i].latitude = NotANumber
            \/ spots[i].longitude = NotANumber

\* _filter_spots raises in `spot.max_height < reqs.height` (or the same of
\* the weight) when the requirement is not a number and the limit of some
\* spot is present and not 0
FilterRaises(spots, reqs) ==
    \E i \in 1..Len(spots) :
        \/ reqs.height = NotANumber /\ Truthy(spots[i].max_height)
        \/ /\ reqs.weight = NotANumber
           /\ Truthy(spots[i].max_weight)
           /\ ~(/\ Truthy(spots[i].max_height)
                /\ spots[i].max_height[1] < reqs.height)

\* `if not coords: return []`
GeocodeFailed(c, t) ==
    [spots |-> <<>>, raised |-> FALSE, cache |-> c, now |-> t,
     trace |-> [NoTrace EXCEPT !.lookup_time = t]]

\* what the call has done once it has built the key and looked it up
Looked(c, cache_key, t) ==
    [NoTrace EXCEPT
        !.geocoded = TRUE, !.key = cache_key, !.cache_read = TRUE,
        !.lookup_time = t,
        !.present = InCache(c, cache_key),
        !.entry_timestamp = IF InCache(c, cache_key)
                            THEN c[cache_key].timestamp ELSE 0]

\* CacheHit that renews the timestamp of the entry it returns
CacheHit_RefreshesTimestamp(c, cache_key, camper_reqs, t) ==
    LET cached_data == c[cache_key].data
        spots == _filter_spots(cached_data, camper_reqs)
    IN  [spots |-> spots, raised |-> FALSE,
         cache |-> [c EXCEPT ![cache_key].timestamp = t], now |-> t,
         trace |-> [Looked(c, cache_key, t) EXCEPT
                        !.hit = TRUE, !.unique_spots = cached_data,
                        !.spots = spots]]

\* `return self._filter_spots(cached_data, camper_reqs)`
CacheHit(c, cache_key, camper_reqs, t) ==
    LET cached_data == c[cache_key].data
    IN  IF FilterRaises(cached_data, camper_reqs)
        THEN [spots |-> <<>>, raised |-> TRUE, cache |-> c, now |-> t,
              trace |-> [Looked(c, cache_key, t) EXCEPT
                            !.hit = TRUE, !.unique_spots = cached_data,
                            !.raised = TRUE]]
        ELSE
        LET spots == _filter_spots(cached_data, camper_reqs)
        IN  [spots |-> spots, raised |-> FALSE, cache |-> c, now |-> t,
             trace |-> [Looked(c, cache_key, t) EXCEPT
                            !.hit = TRUE, !.unique_spots = cached_data,
                            !.spots = spots]]

\* ScrapeAndStore that stores the filtered list in the cache
ScrapeAndStore_CachesFiltered(c, cache_key, camper_reqs, t, osm, google, city, elapsed) ==
    IF osm = "raise"
    THEN [spots |-> <<>>, raised |-> TRUE, cache |-> c, now |-> t + elapsed,
          trace |-> [Looked(c, cache_key, t) EXCEPT
                        !.invoked = <<"osm">>, !.raised = TRUE]]
    ELSE
    LET all_spots == osm \o google \o city
        unique_spots == _deduplicate_spots(all_spots)
        spots == _filter_spots(unique_spots, camper_reqs)
    IN  [spots |-> spots, raised |-> FALSE,
         cache |-> CacheStore(c, cache_key, spots, t + elapsed),
         now |-> t + elapsed,
         trace |-> [Looked(c, cache_key, t) EXCEPT
                        !.invoked = <<"osm", "google", "city">>,
                        !.cache_written = TRUE, !.all_spots = all_spots,
                        !.unique_spots = unique_spots, !.spots = spots]]

\* ScrapeAndStore that does not store an empty deduplicated list
ScrapeAndStore_SkipsEmpty(c, cache_key, camper_reqs, t, osm, google, city, elapsed) ==
    IF osm = "raise"
    THEN [spots |-> <<>>, raised |-> TRUE, cache |-> c, now |-> t + elapsed,
          trace |-> [Looked(c, cache_key, t) EXCEPT
                        !.invoked = <<"osm">>, !.raised = TRUE]]
    ELSE
    LET all_spots == osm \o google \o city
        unique_spots == _deduplicate_spots(all_spots)
        spots == _filter_spots(unique_spots, camper_reqs)
    IN  [spots |-> spots, raised |-> FALSE,
         cache |-> IF unique_spots = <<>> THEN c
                   ELSE CacheStore(c, cache_key, unique_spots, t + elapsed),
         now |-> t + elapsed,
         trace |-> [Looked(c, cache_key, t) EXCEPT
                        !.invoked = <<"osm", "google", "city">>,
                        !.cache_written = (unique_spots # <<>>),
                        !.all_spots = all_spots,
                        !.unique_spots = unique_spots, !.spots = spots]]

\* ScrapeAndStore that filters before it stores
ScrapeAndStore_FiltersBeforeStore(c, cache_key, camper_reqs, t, osm, google, city, elapsed) ==
    IF osm = "raise"
    THEN [spots |-> <<>>, raised |-> TRUE, cache |-> c, now |-> t + elapsed,
          trace |-> [Looked(c, cache_key, t) EXCEPT
                        !.invoked = <<"osm">>, !.raised = TRUE]]
    ELSE
    LET all_spots == osm \o google \o city
    IN  IF DedupRaises(all_spots)
        THEN [spots |-> <<>>, raised |-> TRUE, cache |-> c,
              now |-> t + elapsed,
              trace |-> [Looked(c, cache_key, t) EXCEPT
                            !.invoked = <<"osm", "google", "city">>,
                            !.all_spots = all_spots, !.raised = TRUE]]
        ELSE
        LET unique_spots == _deduplicate_spots(all_spots)
        IN  IF FilterRaises(unique_spots, camper_reqs)
            THEN [spots |-> <<>>, raised |-> TRUE, cache |-> c,
                  now |-> t + elapsed,
                  trace |-> [Looked(c, cache_key, t) EXCEPT
                                !.invoked = <<"osm", "google", "city">>,
                                !.all_spots = all_spots,
                                !.unique_spots = unique_spots,
                                !.raised = TRUE]]
            ELSE
            LET spots == _filter_spots(unique_spots, camper_reqs)
            IN  [spots |-> spots, raised |-> FALSE,
                 cache |-> CacheStore(c, cache_key, unique_spots,
                                      t + elapsed),
                 now |-> t + elapsed,
                 trace |-> [Looked(c, cache_key, t) EXCEPT
                                !.invoked = <<"osm", "google", "city">>,
                                !.cache_written = TRUE,
                                !.all_spots = all_spots,
                                !.unique_spots = unique_spots,
                                !.spots = spots]]

\* lines 722-744: the connectors are called in turn (an exception of the
\* first one leaves the call), their records are deduplicated, the
\* deduplicated list is stored, and then filtered for the return
ScrapeAndStore(c, cache_key, camper_reqs, t, osm, google, city, elapsed) ==
    IF osm = "raise"
    THEN [spots |-> <<>>, raised |-> TRUE, cache |-> c, now |-> t + elapsed,
          trace |-> [Looked(c, cache_key, t) EXCEPT
                        !.invoked = <<"osm">>, !.raised = TRUE]]
    ELSE
    LET all_spots == osm \o google \o city
    IN  IF DedupRaises(all_spots)
        THEN [spots |-> <<>>, raised |-> TRUE, cache |-> c,
              now |-> t + elapsed,
              trace |-> [Looked(c, cache_key, t) EXCEPT
                            !.invoked = <<"osm", "google", "city">>,
                            !.all_spots = all_spots, !.raised = TRUE]]
        ELSE
        LET unique_spots == _deduplicate_spots(all_spots)
        IN  IF FilterRaises(unique_spots, camper_reqs)
            THEN [spots |-> <<>>, raised |-> TRUE,
                  cache |-> CacheStore(c, cache_key, unique_spots,
                                       t + elapsed),
                  now |-> t + elapsed,
                  trace |-> [Looked(c, cache_key, t) EXCEPT
                                !.invoked = <<"osm", "google", "city">>,
                                !.cache_written = TRUE,
                                !.all_spots = all_spots,
                                !.unique_spots = unique_spots,
                                !.raised = TRUE]]
            ELSE
            LET spots == _filter_spots(unique_spots, camper_reqs)
            IN  [spots |-> spots, raised |-> FALSE,
                 cache |-> CacheStore(c, cache_key, unique_spots,
                                      t + elapsed),
                 now |-> t + elapsed,
                 trace |-> [Looked(c, cache_key, t) EXCEPT
                                !.invoked = <<"osm", "google", "city">>,
                                !.cache_written = TRUE,
                                !.all_spots = all_spots,
                                !.unique_spots = unique_spots,
                                !.spots = spots]]

\* find_parking_spots without the `return` of the cache-hit branch
find_parking_spots_NoEarlyReturn(location, camper_reqs, c, t, coords, osm, google, city, elapsed) ==
    IF coords = None THEN GeocodeFailed(c, t)
    ELSE ScrapeAndStore(c, CacheKey(coords[1], coords[2],
                                    camper_reqs.radius_km),
                        camper_reqs, t, osm, google, city, elapsed)

\* find_parking_spots with a geocoder failure that escapes as an error
find_parking_spots_GeocodeRaises(location, camper_reqs, c, t, coords, osm, google, city, elapsed) ==
    IF coords = None
    THEN [GeocodeFailed(c, t) EXCEPT !.raised = TRUE]
    ELSE
    LET cache_key == CacheKey(coords[1], coords[2], camper_reqs.radius_km)
    IN  IF InCache(c, cache_key) /\ IsFresh(c[cache_key], t)
        THEN CacheHit(c, cache_key, camper_reqs, t)
        ELSE ScrapeAndStore(c, cache_key, camper_reqs, t, osm, google, city,
                            elapsed)

find_parking_spots(location, camper_reqs, c, t, coords, osm, google, city, elapsed) ==
    IF coords = None THEN GeocodeFailed(c, t)
    ELSE
    LET cache_key == CacheKey(coords[1], coords[2], camper_reqs.radius_km)
    IN  IF InCache(c, cache_key) /\ IsFresh(c[cache_key], t)
        THEN CacheHit(c, cache_key, camper_reqs, t)
        ELSE ScrapeAndStore(c, cache_key, camper_reqs, t, osm, google, city,
                            elapsed)

----------------------------------------------------------------------------
(* DynamicCamperParkingAI.search_parking *)

_format_spot(spot) ==
    [name |-> spot.name,
     coordinates |-> <<spot.latitude, spot.longitude>>,
     overnight_allowed |-> spot.overnight_allowed,
     facilities |-> spot.has_facilities,
     max_height |-> IF Truthy(spot.max_height)
                    THEN spot.max_height ELSE <<"Unknown">>,
     max_weight |-> IF Truthy(spot.max_weight)
                    THEN spot.max_weight ELSE <<"Unknown">>,
     source |-> spot.source,
     confidence |-> spot.confidence]

FormatSpots(spots) == [i \in 1..Len(spots) |-> _format_spot(spots[i])]

\* search_parking without the `if not spots` branch: an empty list is
\* reported as a success with zero spots
SearchResult_EmptyIsSuccess(search_params, outcome) ==
    IF outcome.raised
    THEN [status |-> "error", message |-> "Search failed"]
    ELSE [status |-> "success",
          location |-> search_params.location,
          search_radius |-> search_params.radius_km,
          spots_found |-> Len(outcome.spots),
          parking_spots |-> FormatSpots(outcome.spots)]

SearchResult(search_params, outcome) ==
    IF outcome.raised
    THEN [status |-> "error", message |-> "Search failed"]
    ELSE IF outcome.spots = <<>>
    THEN [status |-> "no_results",
          message |-> <<"No suitable parking spots found near",
                        search_params.location>>,
          current_params |-> search_params]
    ELSE [status |-> "success",
          location |-> search_params.location,
          search_radius |-> search_params.radius_km,
          spots_found |-> Len(outcome.spots),
          parking_spots |-> FormatSpots(outcome.spots)]

search_parking(location, height, weight, length, needs_facilities, needs_overnight, radius_km, coords, osm, google, city, elapsed) ==
    LET search_params ==
            [location |-> location, height |-> height, weight |-> weight,
             length |-> length, needs_facilities |-> needs_facilities,
             needs_overnight |-> needs_overnight, radius_km |-> radius_km]
        reqs == CamperRequirements(height, weight, length, needs_facilities,
                                   needs_overnight, radius_km)
    IN  \E outcome \in {find_parking_spots(location, reqs, cache, now,
                                            coords, osm, google, city,
                                            elapsed)} :
            /\ outcome.now <= MaxTime
            /\ default_params' = search_params
            /\ cache' = outcome.cache
            /\ now' = outcome.now
            /\ trace' = [outcome.trace EXCEPT !.call = 1 - trace.call,
                                             !.coords = coords]
            /\ result' = SearchResult(search_params, outcome)
            /\ UNCHANGED pureVars
            /\ UNCHANGED concVars

SearchParking ==
    \E location \in Locations, height \in SearchHeights,
       radius_km \in SearchRadii, coords \in GeocodeAnswers,
       osm \in OsmAnswers, google \in GoogleAnswers, city \in CityAnswers,
       elapsed \in ScrapeDurations :
        search_parking(location, height, 35, 70, FALSE, TRUE,
                       radius_km, coords, osm, google, city, elapsed)

\* time passes between two searches
Tick ==
    /\ \E d \in Ticks :
        /\ now + d <= MaxTime
        /\ now' = now + d
    /\ UNCHANGED <<cache, default_params, result, trace>>
    /\ UNCHANGED pureVars
    /\ UNCHANGED concVars

Init ==
    /\ arg_spots = <<>>
    /\ arg_reqs = NoReqs
    /\ ret_spots = <<>>
    /\ ret_again = <<>>
    /\ pc = "search"
    /\ InitSys

Next == SearchParking \/ Tick

Spec == Init /\ [][Next]_vars

----------------------------------------------------------------------------
(* Properties of the cache and of a search, under Spec *)

\* the CamperRequirements search_parking builds from its parameters
RequirementsOf(params) ==
    CamperRequirements(params.height, params.weight, params.length,
                       params.needs_facilities, params.needs_overnight,
                       params.radius_km)

\* C7: a lookup that finds an entry for its key is a hit if and only if
\* fewer than 3600 seconds have passed since the entry was stored: a hit at
\* 3599 seconds, a miss at exactly 3600 and at 3601.
C7_HitIffYoungerThanCacheDuration ==
    (trace.cache_read /\ trace.present) =>
        (trace.hit <=> trace.lookup_time - trace.entry_timestamp < 3600)

C7_Witness ==
    /\ trace.cache_read
    /\ trace.present
    /\ trace.lookup_time - trace.entry_timestamp = 3599
    /\ trace.hit

\* C8: a search that finds a valid (unexpired) entry for its key invokes
\* none of the three connectors; connectors are invoked only when the key
\* is absent or its entry is stale.
C8_NoConnectorOnValidEntry ==
    /\ (/\ trace.cache_read
        /\ trace.present
        /\ trace.lookup_time - trace.entry_timestamp < 3600)
       => trace.invoked = <<>>
    /\ trace.invoked # <<>> =>
        /\ trace.cache_read
        /\ \/ ~trace.present
           \/ trace.lookup_time - trace.entry_timestamp >= 3600

C8_Witness ==
    /\ trace.cache_read
    /\ trace.present
    /\ trace.lookup_time - trace.entry_timestamp < 3600
    /\ trace.unique_spots # <<>>
    /\ trace.invoked = <<>>
    /\ result.status = "success"

\* C9: when a search stores the entry of a key and the next search is a hit
\* on that key, with whatever requirements, the hit returns _filter_spots
\* of its own requirements applied to the whole deduplicated set of the
\* first search, not to what the first search returned.
C9_CacheHoldsPreFilterSet ==
    [][ (/\ trace.cache_written
         /\ trace'.call # trace.call
         /\ trace'.hit
         /\ trace'.key = trace.key)
        => trace'.spots =
                _filter_spots(_deduplicate_spots(trace.all_spots),
                              RequirementsOf(default_params')) ]_vars

\* a hit under height 2.8 m returns the spot limited to 3.0 m, which a
\* search under height 3.2 m does not return
C9_Witness ==
    /\ trace.hit
    /\ default_params.height = 28
    /\ OsmSpot \in Range(trace.spots)
    /\ _filter_spots(trace.unique_spots,
                     [RequirementsOf(default_params) EXCEPT !.height = 32])
            # trace.spots

\* C10: when the geocoder gives no coordinates, find_parking_spots returns
\* an empty list, invokes no connector, neither reads nor writes the cache,
\* and search_parking reports "no_results", not "error".
C10_UnresolvedLocationIsNoResults ==
    [][ (trace'.call # trace.call /\ ~trace'.geocoded) =>
            /\ trace'.spots = <<>>
            /\ trace'.invoked = <<>>
            /\ ~trace'.cache_read
            /\ ~trace'.cache_written
            /\ cache' = cache
            /\ result'.status = "no_results" ]_vars

C10_Witness ==
    /\ ~trace.geocoded
    /\ trace.call = 1
    /\ DOMAIN cache # {}
    /\ result.status = "no_results"

----------------------------------------------------------------------------
(* Properties of the connector calls and of the outcome of a search *)

\* C11: on a cache miss a connector that raises contributes no record, the
\* other connectors are still invoked and the search completes: every miss
\* invokes the three connectors and ends as "success" or "no_results",
\* never as a failed search.
C11_ConnectorFailureIsIsolated ==
    (trace.cache_read /\ ~trace.hit) =>
        /\ trace.invoked = <<"osm", "google", "city">>
        /\ result.status \in {"success", "no_results"}

\* rank of a record's source in the order of the connector calls
SourceRank(spot) ==
    IF spot.source = "OpenStreetMap" THEN 1
    ELSE IF spot.source = "Google Places" THEN 2
    ELSE 3

\* C12: every cache miss invokes OpenStreetMap, then Google Places, then the
\* city websites, and hands _deduplicate_spots the concatenation of their
\* records in that order, which is then stored.
C12_EveryMissCallsConnectorsInOrder ==
    (trace.cache_read /\ ~trace.hit) =>
        /\ Len(trace.invoked) = 3
        /\ trace.invoked[1] = "osm"
        /\ trace.invoked[2] = "google"
        /\ trace.invoked[3] = "city"
        /\ trace.cache_written
        /\ trace.unique_spots = _deduplicate_spots(trace.all_spots)
        /\ \A i \in 1..Len(trace.all_spots), j \in 1..Len(trace.all_spots) :
                i < j => SourceRank(trace.all_spots[i])
                            <= SourceRank(trace.all_spots[j])

\* C13: the outcome of a search that found candidates of which none passes
\* the filter differs from the outcome the same search has when no
\* candidate is found at all, and carries the attempted parameters.
C13_FilteredOutIsDistinctOutcome ==
    (/\ trace.geocoded
     /\ ~trace.raised
     /\ trace.unique_spots # <<>>
     /\ trace.spots = <<>>)
    => /\ result.current_params = default_params
       /\ result # SearchResult(default_params,
                                [raised |-> FALSE, spots |-> <<>>])

\* C14: a miss on which every connector returns nothing leaves an empty
\* deduplicated list and the status "no_results"; the status is "success"
\* exactly when find_parking_spots returned a non-empty list, and then
\* spots_found is the length of parking_spots, which lists the returned
\* spots in their order, by non-increasing confidence.
C14_SuccessIffSpotsReturned ==
    /\ (trace.cache_written /\ trace.all_spots = <<>>) =>
            /\ trace.unique_spots = <<>>
            /\ result.status = "no_results"
    /\ result.status = "success" <=> (~trace.raised /\ trace.spots # <<>>)
    /\ result.status = "success" =>
            /\ result.spots_found = Len(result.parking_spots)
            /\ result.parking_spots = FormatSpots(trace.spots)
            /\ \A i \in 1..Len(trace.spots), j \in 1..Len(trace.spots) :
                    i < j => trace.spots[i].confidence
                                >= trace.spots[j].confidence

\* the three connectors answered and nothing was found
C14_Witness ==
    /\ trace.cache_written
    /\ trace.invoked = <<"osm", "google", "city">>
    /\ trace.all_spots = <<>>
    /\ result.status = "no_results"

----------------------------------------------------------------------------
(* Searches at nearby coordinates and different radii *)

\* the searches made: resolved coordinates on both sides of a rounding
\* boundary of the fourth decimal, in latitude (60.16994 / 60.16996) and in
\* longitude (24.93844 / 24.93846), and one of them at a second radius
KeySearches ==
    {<<<<6016994, 2493840>>, 10>>, <<<<6016996, 2493840>>, 10>>,
     <<<<6016996, 2493844>>, 10>>, <<<<6016996, 2493846>>, 10>>,
     <<<<6016996, 2493840>>, 20>>}

KeyOsmAnswers == {<<>>, <<OsmSpot>>}

SearchParkingKeys ==
    \E search \in KeySearches, osm \in KeyOsmAnswers :
        search_parking("Helsinki", 28, 35, 70, FALSE, TRUE, search[2],
                       search[1], osm, <<>>, <<>>, 0)

NextKeys == SearchParkingKeys \/ Tick

SpecKeys == Init /\ [][NextKeys]_vars

\* a coordinate in units of 0.00001 degree rounded to 4 decimals: the
\* multiple of 0.0001 degree nearest to it
Round4(x) ==
    CHOOSE r \in (x \div 10)..(x \div 10 + 1) :
        10 * r - 5 <= x /\ x < 10 * r + 5

\* the key of the entry a search of these coordinates and radius uses
EntryOf(coords, radius_km) ==
    <<Round4(coords[1]), Round4(coords[2]), radius_km>>

\* C15: two searches use the same cache entry exactly when their resolved
\* latitudes rounded to 4 decimals are equal, their longitudes rounded to
\* 4 decimals are equal and their radii are equal; a search reads only the
\* entry of its own rounded coordinates and radius and leaves every other
\* entry as it was.
C15_SameEntryIffRoundedCoordsAndRadiusEqual ==
    [][ (trace'.call # trace.call /\ trace'.cache_read) =>
            /\ trace.cache_read =>
                ((trace'.key = trace.key) <=>
                    /\ Round4(trace'.coords[1]) = Round4(trace.coords[1])
                    /\ Round4(trace'.coords[2]) = Round4(trace.coords[2])
                    /\ default_params'.radius_km = default_params.radius_km)
            /\ \A k \in DOMAIN cache :
                    k # EntryOf(trace'.coords, default_params'.radius_km)
                        => k \in DOMAIN cache' /\ cache'[k] = cache[k]
            /\ trace'.present =
                    (EntryOf(trace'.coords, default_params'.radius_km)
                        \in DOMAIN cache)
            /\ trace'.present =>
                    trace'.entry_timestamp =
                        cache[EntryOf(trace'.coords,
                                      default_params'.radius_km)].timestamp
            /\ trace'.hit =>
                    trace'.unique_spots =
                        cache[EntryOf(trace'.coords,
                                      default_params'.radius_km)].data ]_vars

\* a hit at 60.16996/24.93844 (the entry of 60.1700/24.9384) while the
\* entries of the other radius and of 60.16994 hold something else
C15_Witness ==
    /\ trace.hit
    /\ trace.coords = <<6016996, 2493844>>
    /\ default_params.radius_km = 10
    /\ trace.unique_spots = <<OsmSpot>>
    /\ <<601700, 249384, 20>> \in DOMAIN cache
    /\ cache[<<601700, 249384, 20>>].data = <<>>
    /\ <<601699, 249384, 10>> \in DOMAIN cache
    /\ cache[<<601699, 249384, 10>>].data = <<>>

----------------------------------------------------------------------------
(* Lifetime of the cache entries, under Spec *)

\* C16: no step removes a key from the cache, and an entry changes only in
\* a search that looks its own key up and misses: an expired entry stays
\* as it is through time passing and through searches of other keys.
C16_NoEntryRemovedOrTouchedByOthers ==
    [][ /\ DOMAIN cache \subseteq DOMAIN cache'
        /\ \A k \in DOMAIN cache :
                cache'[k] # cache[k] =>
                    /\ trace'.call # trace.call
                    /\ trace'.cache_read
                    /\ trace'.key = k
                    /\ ~trace'.hit ]_vars

\* an entry that has expired is still there after a search stored the
\* entry of another key
C16_Witness ==
    /\ trace.cache_written
    /\ \E k \in DOMAIN cache :
            /\ k # trace.key
            /\ now - cache[k].timestamp >= 3600
            /\ cache[k].data # <<>>

\* C17: a search that misses and does not raise leaves under its key the
\* newly deduplicated set and the time of the store, whatever was there;
\* the next lookup of that key within 3600 seconds of the store is a hit
\* on that set.
C17_MissOverwritesEntry ==
    [][ /\ (/\ trace'.call # trace.call
            /\ trace'.cache_read
            /\ ~trace'.hit
            /\ ~trace'.raised)
           => /\ trace'.key \in DOMAIN cache'
              /\ cache'[trace'.key] =
                    [data |-> _deduplicate_spots(trace'.all_spots),
                     timestamp |-> now']
        /\ (/\ trace.cache_written
            /\ trace'.call # trace.call
            /\ trace'.cache_read
            /\ trace'.key = trace.key
            /\ trace'.lookup_time - cache[trace.key].timestamp < 3600)
           => /\ trace'.hit
              /\ trace'.unique_spots = trace.unique_spots ]_vars

\* a stale entry has been replaced by a different set at a later time
C17_Witness ==
    /\ trace.cache_read
    /\ trace.present
    /\ ~trace.hit
    /\ trace.cache_written
    /\ cache[trace.key].timestamp >= trace.entry_timestamp + 3600
    /\ cache[trace.key].data = <<OsmSpot>>

----------------------------------------------------------------------------
(* Interleaved calls of find_parking_spots on one finder *)

\* requirements of the interleaved calls
ConcReqs == CamperRequirements(28, 35, 70, FALSE, TRUE, 10)

ConcGeocodeAnswers == {<<6016990, 2493840>>, <<6017500, 2493000>>}

\* lines 713-720: the call builds its key and looks it up; on a valid entry
\* it returns the filtered cached data, otherwise it goes on to scrape
Lookup(p) ==
    /\ calls[p].pc = "idle"
    /\ \E coords \in ConcGeocodeAnswers :
        LET cache_key == CacheKey(coords[1], coords[2], ConcReqs.radius_km)
        IN  IF InCache(cache, cache_key) /\ IsFresh(cache[cache_key], now)
            THEN calls' = [calls EXCEPT ![p] =
                    [IdleCall EXCEPT
                        !.pc = "done", !.key = cache_key, !.hit = TRUE,
                        !.unique_spots = cache[cache_key].data,
                        !.spots = _filter_spots(cache[cache_key].data,
                                                ConcReqs)]]
            ELSE calls' = [calls EXCEPT ![p] =
                    [IdleCall EXCEPT !.pc = "scrape", !.key = cache_key]]
    /\ UNCHANGED <<cache, now, default_params, result, trace, stored_by>>
    /\ UNCHANGED pureVars

\* lines 722-741: the three connectors are called and their records are
\* deduplicated into the local unique_spots
Scrape(p) ==
    /\ calls[p].pc = "scrape"
    /\ \E osm \in KeyOsmAnswers, google \in {<<>>}, city \in CityAnswers :
        calls' = [calls EXCEPT ![p] =
                    [@ EXCEPT !.pc = "store",
                              !.invoked = <<"osm", "google", "city">>,
                              !.unique_spots =
                                _deduplicate_spots(osm \o google \o city)]]
    /\ UNCHANGED <<cache, now, default_params, result, trace, stored_by>>
    /\ UNCHANGED pureVars

\* Store that leaves alone a key another call has populated meanwhile
Store_KeepsFirst(p) ==
    /\ calls[p].pc = "store"
    /\ cache' = IF InCache(cache, calls[p].key) THEN cache
                ELSE CacheStore(cache, calls[p].key, calls[p].unique_spots,
                                now)
    /\ stored_by' = Append(stored_by, p)
    /\ calls' = [calls EXCEPT ![p] =
                    [@ EXCEPT !.pc = "done",
                              !.spots = _filter_spots(calls[p].unique_spots,
                                                      ConcReqs)]]
    /\ UNCHANGED <<now, default_params, result, trace>>
    /\ UNCHANGED pureVars

\* lines 742-744: the call stores its unique_spots under its key and
\* returns the filtered list
Store(p) ==
    /\ calls[p].pc = "store"
    /\ cache' = CacheStore(cache, calls[p].key, calls[p].unique_spots, now)
    /\ stored_by' = Append(stored_by, p)
    /\ calls' = [calls EXCEPT ![p] =
                    [@ EXCEPT !.pc = "done",
                              !.spots = _filter_spots(calls[p].unique_spots,
                                                      ConcReqs)]]
    /\ UNCHANGED <<now, default_params, result, trace>>
    /\ UNCHANGED pureVars

NextConc == \E p \in Callers : Lookup(p) \/ Scrape(p) \/ Store(p)

SpecConc == Init /\ [][NextConc]_vars

\* the caller that stored last under key k
LastStorer(k) ==
    LET I == {i \in 1..Len(stored_by) : calls[stored_by[i]].key = k}
    IN  stored_by[CHOOSE i \in I : \A j \in I : j <= i]

\* C18: nothing guards the cache between the lookup and the store of a
\* call: a call that saw a miss invokes the connectors and stores whatever
\* the other calls did meanwhile, and the entry of a key is always the one
\* of the call that stored last under it.
C18_LastStoreWins ==
    /\ \A p \in Callers :
            (calls[p].pc \in {"store", "done"} /\ ~calls[p].hit) =>
                calls[p].invoked = <<"osm", "google", "city">>
    /\ \A p \in Callers :
            (calls[p].pc = "done" /\ ~calls[p].hit) =>
                \E i \in 1..Len(stored_by) : stored_by[i] = p
    /\ \A k \in DOMAIN cache :
            cache[k].data = calls[LastStorer(k)].unique_spots

\* both calls missed on the same key before either stored, both scraped,
\* and the second store replaced the populated entry of the first
C18_Witness ==
    /\ calls[1].pc = "done" /\ calls[2].pc = "done"
    /\ calls[1].key = calls[2].key
    /\ ~calls[1].hit /\ ~calls[2].hit
    /\ calls[1].invoked = <<"osm", "google", "city">>
    /\ calls[2].invoked = <<"osm", "google", "city">>
    /\ stored_by = <<1, 2>>
    /\ calls[1].unique_spots = <<OsmSpot>>
    /\ calls[2].unique_spots = <<>>
    /\ cache[calls[1].key].data = <<>>

----------------------------------------------------------------------------
(* The connectors: what search_parking_spots makes of the answers of its   *)
(* source.  A response is [error, elements]: error is "none", or the       *)
(* exception of the request ("RequestException") or of response.json()     *)
(* ("JSONDecodeError"); a key that an element lacks is None.  A call       *)
(* yields [raised, spots]: raised when an exception leaves it.             *)

Returned(spots) == [raised |-> FALSE, spots |-> spots]
Raised == [raised |-> TRUE, spots |-> <<>>]

ResponseErrors == {"RequestException", "JSONDecodeError"}

\* the answers of a source: a failed request or at most MaxElements
\* elements
Responses(elements) ==
    {[error |-> e, elements |-> <<>>] : e \in ResponseErrors}
    \cup {[error |-> "none", elements |-> els] :
            els \in SeqUpTo(elements, MaxElements)}

\* ---- OpenStreetMapScraper ----

\* an Overpass element: `lat`, `lon` and `center` may each be missing, and
\* so may the two keys of `center`
OsmElements ==
    {[lat |-> lat, lon |-> lon, center |-> center] :
        lat \in {None, Some(0)}, lon \in {None, Some(0)},
        center \in {None} \cup
                   {Some([lat |-> clat, lon |-> clon]) :
                        clat \in {None, Some(120)}, clon \in {None, Some(0)}}}

OsmRecord(lat, lon) ==
    ScrapedParkingSpot("Parking near", lat, lon, None, None, FALSE, TRUE,
                       "OpenStreetMap", 80)

\* [raised, spot]: spot is None for `return None`
_parse_osm_element(element) ==
    IF element.lat # None /\ element.lon # None
    THEN [raised |-> FALSE,
          spot |-> Some(OsmRecord(element.lat[1], element.lon[1]))]
    ELSE IF element.center # None
    THEN IF element.center[1].lat = None \/ element.center[1].lon = None
         THEN [raised |-> TRUE, spot |-> None]       \* KeyError
         ELSE [raised |-> FALSE,
               spot |-> Some(OsmRecord(element.center[1].lat[1],
                                       element.center[1].lon[1]))]
    ELSE [raised |-> FALSE, spot |-> None]

\* the loop `for element in data.get('elements', [])`, from element i on
RECURSIVE OsmLoop(_, _, _)
OsmLoop(elements, i, spots) ==
    IF i > Len(elements) THEN Returned(spots)
    ELSE LET parsed == _parse_osm_element(elements[i])
         IN  IF parsed.raised THEN Raised
             ELSE OsmLoop(elements, i + 1, spots \o parsed.spot)

\* only RequestException and JSONDecodeError are caught
OpenStreetMapScraper_search_parking_spots(response) ==
    IF response.error # "none" THEN Returned(<<>>)
    ELSE OsmLoop(response.elements, 1, <<>>)

\* ---- GooglePlacesScraper ----

search_types == <<"parking", "campground", "rv_park", "rest_area">>

\* a place: its geometry.location, of which `lat` and `lng` may be
\* missing; a place without geometry or location has neither
GooglePlaces ==
    {[location |-> [lat |-> lat, lng |-> lng]] :
        lat \in {None, Some(60)}, lng \in {None, Some(0)}}

GoogleRecord(lat, lng, place_type) ==
    ScrapedParkingSpot("Unnamed location", lat, lng, None, None,
                       place_type \in {"campground", "rv_park"},
                       place_type \in {"campground", "rv_park", "rest_area"},
                       "Google Places", 70)

_parse_google_place(place, place_type) ==
    IF place.location.lat = None /\ place.location.lng = None
    THEN [raised |-> FALSE, spot |-> None]           \* `if not location`
    ELSE IF place.location.lat = None \/ place.location.lng = None
    THEN [raised |-> TRUE, spot |-> None]            \* KeyError
    ELSE [raised |-> FALSE,
          spot |-> Some(GoogleRecord(place.location.lat[1],
                                     place.location.lng[1], place_type))]

RECURSIVE GoogleLoop(_, _, _, _)
GoogleLoop(places, place_type, i, spots) ==
    IF i > Len(places) THEN Returned(spots)
    ELSE LET parsed == _parse_google_place(places[i], place_type)
         IN  IF parsed.raised THEN Raised
             ELSE GoogleLoop(places, place_type, i + 1,
                             spots \o parsed.spot)

\* nothing is caught here
_search_by_type(response, place_type) ==
    IF response.error # "none" THEN Raised
    ELSE GoogleLoop(response.elements, place_type, 1, <<>>)

\* the loop over search_types: `except Exception` drops what the failing
\* type would have added
RECURSIVE GoogleTypes(_, _, _)
GoogleTypes(responses, i, spots) ==
    IF i > Len(search_types) THEN Returned(spots)
    ELSE LET found == _search_by_type(responses[i], search_types[i])
         IN  GoogleTypes(responses, i + 1,
                         IF found.raised THEN spots
                         ELSE spots \o found.spots)

GooglePlacesScraper_search_parking_spots(api_key, responses) ==
    IF ~api_key THEN Returned(<<>>)
    ELSE GoogleTypes(responses, 1, <<>>)

\* ---- CityWebsiteScraper and HelsinkiOfficialScraper ----

search_terms == <<"pysakointi", "parking", "pysakointialue", "pysakointitalo">>

\* the search radius of 10 km, in metres
ConnectorRadius == 10000

\* a Palvelukartta item: `coordinates` is [lon, lat], maybe shorter, None
\* when the item has no location or the location no coordinates; `name`
\* is a dict as documented or a plain string
PalvelukarttaItems ==
    {[coordinates |-> coordinates, name_is_dict |-> name_is_dict] :
        coordinates \in {None, Some(<<>>), Some(<<0>>), Some(<<0, 120>>),
                         Some(<<0, 20000>>)},
        name_is_dict \in BOOLEAN}

PalvelukarttaRecord(lat, lon) ==
    ScrapedParkingSpot("Helsinki Parking Spot", lat, lon, None, None, FALSE,
                       TRUE, "Helsinki Palvelukartta", 95)

\* `self._calculate_distance(...) > radius_km` of HelsinkiOfficialScraper,
\* on planar coordinates in metres: compared by the squares
DistanceExceeds(lat1, lon1, lat2, lon2, radius) ==
    (lat2 - lat1) * (lat2 - lat1) + (lon2 - lon1) * (lon2 - lon1)
        > radius * radius

\* KeyError, IndexError, TypeError and ValueError are caught; the
\* AttributeError of item.get('name', {}).get on a string is not
_parse_palvelukartta_item(item, search_lat, search_lon, radius) ==
    IF item.coordinates = None THEN [raised |-> FALSE, spot |-> None]
    ELSE IF Len(item.coordinates[1]) < 2
    THEN [raised |-> FALSE, spot |-> None]
    ELSE LET lon == item.coordinates[1][1]
             lat == item.coordinates[1][2]
         IN  IF DistanceExceeds(search_lat, search_lon, lat, lon, radius)
             THEN [raised |-> FALSE, spot |-> None]
             ELSE IF ~item.name_is_dict
             THEN [raised |-> TRUE, spot |-> None]
             ELSE [raised |-> FALSE,
                   spot |-> Some(PalvelukarttaRecord(lat, lon))]

RECURSIVE PalvelukarttaLoop(_, _, _)
PalvelukarttaLoop(items, i, spots) ==
    IF i > Len(items) THEN Returned(spots)
    ELSE LET parsed == _parse_palvelukartta_item(items[i], 0, 0,
                                                 ConnectorRadius)
         IN  IF parsed.raised THEN Raised
             ELSE PalvelukarttaLoop(items, i + 1, spots \o parsed.spot)

\* the loop over search_terms: a failed request is caught and the next
\* term is tried; an error of the parsing leaves the function
RECURSIVE PalvelukarttaTerms(_, _, _)
PalvelukarttaTerms(responses, i, spots) ==
    IF i > Len(search_terms) THEN Returned(spots)
    ELSE IF responses[i].error # "none"
    THEN PalvelukarttaTerms(responses, i + 1, spots)
    ELSE LET found == PalvelukarttaLoop(responses[i].elements, 1, spots)
         IN  IF found.raised THEN Raised
             ELSE PalvelukarttaTerms(responses, i + 1, found.spots)

_scrape_palvelukartta_api(responses) == PalvelukarttaTerms(responses, 1, <<>>)

\* what the scraping of an HTML page gives: its records are placed
\* around the search position, and every exception is caught in it
PageSpot ==
    ScrapedParkingSpot("Parking Area", 500, 500, None, None, FALSE, TRUE,
                       "Official Website", 70)

PageAnswers == {<<>>, <<PageSpot>>}

\* both parts are wrapped in `except Exception`
search_helsinki_parking_spots(responses, page) ==
    LET api == _scrape_palvelukartta_api(responses)
    IN  Returned((IF api.raised THEN <<>> ELSE api.spots) \o page)

Cities == {"helsinki", "tampere", "porvoo"}

city_parking_urls == {"tampere", "turku", "oulu"}

CityWebsiteScraper_search_parking_spots(city, responses, page) ==
    IF city = "helsinki"
    THEN search_helsinki_parking_spots(responses, page)
    ELSE IF city \notin city_parking_urls THEN Returned(<<>>)
    ELSE Returned(page)

\* ---- the answers given to a connector ----

OsmInputs ==
    {[connector |-> "osm", response |-> r] : r \in Responses(OsmElements)}

\* the first search type gets any response, the others a failure or one
\* complete place
GoogleInputs ==
    {[connector |-> "google", api_key |-> k, responses |-> <<r1, r2, r3, r4>>] :
        k \in BOOLEAN, r1 \in Responses(GooglePlaces),
        r2 \in {[error |-> "RequestException", elements |-> <<>>],
                [error |-> "none",
                 elements |-> <<[location |-> [lat |-> Some(60),
                                               lng |-> Some(0)]]>>]},
        r3 \in {[error |-> "none", elements |-> <<>>]},
        r4 \in {[error |-> "none", elements |-> <<>>]}}

CityInputs ==
    {[connector |-> "city", city |-> c, responses |-> <<r1, r2, r3, r4>>, page |-> pg] :
        c \in Cities, r1 \in Responses(PalvelukarttaItems),
        r2 \in {[error |-> "JSONDecodeError", elements |-> <<>>],
                [error |-> "none",
                 elements |-> <<[coordinates |-> Some(<<0, 60>>),
                                 name_is_dict |-> TRUE]>>]},
        r3 \in {[error |-> "none", elements |-> <<>>]},
        r4 \in {[error |-> "none", elements |-> <<>>]},
        pg \in PageAnswers}

InitConnectors ==
    /\ arg_spots \in OsmInputs \cup GoogleInputs \cup CityInputs
    /\ arg_reqs = NoReqs
    /\ ret_spots = <<>>
    /\ ret_again = <<>>
    /\ pc = "connector"
    /\ InitSys

OsmSearch ==
    /\ pc = "connector"
    /\ arg_spots.connector = "osm"
    /\ ret_spots' = OpenStreetMapScraper_search_parking_spots(arg_spots.response)
    /\ pc' = "osm_done"
    /\ UNCHANGED <<arg_spots, arg_reqs, ret_again>>
    /\ UNCHANGED sysVars

GoogleSearch ==
    /\ pc = "connector"
    /\ arg_spots.connector = "google"
    /\ ret_spots' = GooglePlacesScraper_search_parking_spots(
                        arg_spots.api_key, arg_spots.responses)
    /\ pc' = "google_done"
    /\ UNCHANGED <<arg_spots, arg_reqs, ret_again>>
    /\ UNCHANGED sysVars

CitySearch ==
    /\ pc = "connector"
    /\ arg_spots.connector = "city"
    /\ ret_spots' = CityWebsiteScraper_search_parking_spots(
                        arg_spots.city, arg_spots.responses, arg_spots.page)
    /\ pc' = "city_done"
    /\ UNCHANGED <<arg_spots, arg_reqs, ret_again>>
    /\ UNCHANGED sysVars

NextConnectors == OsmSearch \/ GoogleSearch \/ CitySearch

SpecConnectors == InitConnectors /\ [][NextConnectors]_vars

\* C19: no search_parking_spots of a connector lets an exception out:
\* whatever the source answered, the call returns a list.
C19_NoConnectorRaises ==
    pc \in {"osm_done", "google_done", "city_done"} => ~ret_spots.raised

\* an element that carries both coordinates
HasOsmCoordinates(element) ==
    \/ element.lat # None /\ element.lon # None
    \/ /\ element.center # None
       /\ element.center[1].lat # None
       /\ element.center[1].lon # None

HasGoogleCoordinates(place) ==
    place.location.lat # None /\ place.location.lng # None

HasPalvelukarttaCoordinates(item) ==
    item.coordinates # None /\ Len(item.coordinates[1]) >= 2

\* number of the elements of the answered responses that satisfy Keep
CountKept(responses, Keep(_)) ==
    Cardinality(UNION {{<<i, j>> : j \in {e \in 1..Len(responses[i].elements) :
                                            Keep(responses[i].elements[e])}} :
                       i \in 1..Len(responses)})

InRadius(item) ==
    /\ HasPalvelukarttaCoordinates(item)
    /\ item.coordinates[1][1] * item.coordinates[1][1]
        + item.coordinates[1][2] * item.coordinates[1][2]
            <= ConnectorRadius * ConnectorRadius

\* C20: an element with missing coordinates yields no record and takes
\* nothing else away: the connector returns one record, with a latitude
\* and a longitude, for each element of its responses that has both
\* coordinates (for Palvelukartta: within the radius and well-formed
\* otherwise), and none for the others.
C20_MissingCoordinatesOnlyDropTheElement ==
    /\ pc = "osm_done" =>
        /\ ~ret_spots.raised
        /\ Len(ret_spots.spots) =
                CountKept(<<arg_spots.response>>, HasOsmCoordinates)
    /\ (pc = "google_done" /\ arg_spots.api_key) =>
        /\ ~ret_spots.raised
        /\ Len(ret_spots.spots) =
                CountKept(arg_spots.responses, HasGoogleCoordinates)
    /\ (/\ pc = "city_done"
        /\ arg_spots.city = "helsinki"
        /\ \A i \in 1..Len(arg_spots.responses) :
            \A j \in 1..Len(arg_spots.responses[i].elements) :
                arg_spots.responses[i].elements[j].name_is_dict) =>
        /\ ~ret_spots.raised
        /\ Len(ret_spots.spots) =
                CountKept(arg_spots.responses, InRadius)
                + Len(arg_spots.page)

----------------------------------------------------------------------------
(* The iterations of _deduplicate_spots, under SpecDedup.  The accepted    *)
(* list after the first k records of the input is _deduplicate_spots of    *)
(* these k records.                                                        *)

\* the accepted list after k records of the input
AcceptedAfter(k) == _deduplicate_spots(SubSeq(arg_spots, 1, k))

\* two records less than 0.1 km apart, by the squares of the metres
Within100m(a, b) ==
    (a.latitude - b.latitude) * (a.latitude - b.latitude)
    + (a.longitude - b.longitude) * (a.longitude - b.longitude) < 100 * 100

\* positions of the accepted spots within 0.1 km of the record
MatchesOf(accepted, spot) ==
    {i \in 1..Len(accepted) : Within100m(spot, accepted[i])}

Minimum(S) == CHOOSE m \in S : \A n \in S : m <= n

\* the list without its element at position m
RemoveAt(list, m) == SubSeq(list, 1, m - 1) \o SubSeq(list, m + 1, Len(list))

\* C21: each incoming record is decided by the first accepted spot within
\* 0.1 km of it alone: the accepted list changes exactly when there is no
\* such spot or the record's confidence exceeds that of the first one,
\* whatever the later matches are, and every accepted spot other than that
\* first match stays.
C21_FirstMatchAloneDecides ==
    pc = "deduplicated" =>
        \A k \in 1..Len(arg_spots) :
            \A accepted \in {AcceptedAfter(k - 1)} :
            \A after \in {AcceptedAfter(k)} :
            \A M \in {MatchesOf(accepted, arg_spots[k])} :
                M # {} =>
                /\ (after # accepted) <=>
                        arg_spots[k].confidence
                            > accepted[Minimum(M)].confidence
                /\ \A i \in 1..Len(accepted) :
                        i # Minimum(M) =>
                            \E j \in 1..Len(after) : after[j] = accepted[i]

\* the third record is within 0.1 km of both accepted spots; the first has
\* the higher confidence and the record is discarded, although the second
\* has a lower confidence than the record
C21_Witness ==
    /\ pc = "deduplicated"
    /\ Len(arg_spots) = 3
    /\ ret_spots = SubSeq(arg_spots, 1, 2)
    /\ MatchesOf(ret_spots, arg_spots[3]) = {1, 2}
    /\ arg_spots[3].confidence <= arg_spots[1].confidence
    /\ arg_spots[3].confidence > arg_spots[2].confidence

\* C22: a record that matches an accepted spot with strictly greater
\* confidence takes that spot out of the accepted list and is appended at
\* the end, the other spots keeping their order; with a confidence that is
\* less or equal the accepted list stays as it is.
C22_ReplaceRemovesMatchAndAppends ==
    pc = "deduplicated" =>
        \A k \in 1..Len(arg_spots) :
            \A accepted \in {AcceptedAfter(k - 1)} :
            \A M \in {MatchesOf(accepted, arg_spots[k])} :
                M # {} =>
                AcceptedAfter(k) =
                    IF arg_spots[k].confidence
                            > accepted[Minimum(M)].confidence
                    THEN RemoveAt(accepted, Minimum(M)) \o <<arg_spots[k]>>
                    ELSE accepted

\* the third record replaces the first accepted spot and comes out last
C22_Witness ==
    /\ pc = "deduplicated"
    /\ Len(arg_spots) = 3
    /\ AcceptedAfter(2) = SubSeq(arg_spots, 1, 2)
    /\ MatchesOf(AcceptedAfter(2), arg_spots[3]) = {1}
    /\ arg_spots[3].confidence > arg_spots[1].confidence
    /\ ret_spots = <<arg_spots[2], arg_spots[3]>>

\* C23: when all the input records are pairwise at least 0.1 km apart, the
\* output is the input, also with a pair at exactly 0.1 km.
C23_DistinctRecordsAllKept ==
    (/\ pc = "deduplicated"
     /\ \A i, j \in 1..Len(arg_spots) :
            i < j => ~Within100m(arg_spots[i], arg_spots[j]))
    => ret_spots = arg_spots

\* two of three records are exactly 0.1 km apart and all are kept
C23_Witness ==
    /\ pc = "deduplicated"
    /\ Len(arg_spots) = 3
    /\ ret_spots = arg_spots
    /\ (arg_spots[1].latitude - arg_spots[2].latitude)
            * (arg_spots[1].latitude - arg_spots[2].latitude)
       + (arg_spots[1].longitude - arg_spots[2].longitude)
            * (arg_spots[1].longitude - arg_spots[2].longitude)
            = 100 * 100

\* the greatest confidence among the records
MaxConfidence(spots) ==
    CHOOSE c \in {spots[i].confidence : i \in 1..Len(spots)} :
        \A i \in 1..Len(spots) : spots[i].confidence <= c

\* C27: the output of a non-empty input is non-empty and holds a record of
\* the greatest confidence of the input.
C27_MaximalConfidenceSurvives ==
    (pc = "deduplicated" /\ arg_spots # <<>>) =>
        /\ ret_spots # <<>>
        /\ \E i \in 1..Len(ret_spots) :
                ret_spots[i].confidence = MaxConfidence(arg_spots)

\* three records at one place, the most confident one in the middle:
\* it replaces the first and is not replaced by the third
C27_Witness ==
    /\ pc = "deduplicated"
    /\ Len(arg_spots) = 3
    /\ Within100m(arg_spots[1], arg_spots[2])
    /\ Within100m(arg_spots[2], arg_spots[3])
    /\ arg_spots[2].confidence > arg_spots[1].confidence
    /\ arg_spots[2].confidence > arg_spots[3].confidence
    /\ ret_spots = <<arg_spots[2]>>

\* C28: every input record that is not in the output has, in the output, a
\* record within 0.1 km of it with a confidence at least as high.
C28_NoLocationLost ==
    pc = "deduplicated" =>
        \A i \in 1..Len(arg_spots) :
            arg_spots[i] \notin Range(ret_spots) =>
                \E j \in 1..Len(ret_spots) :
                    /\ Within100m(arg_spots[i], ret_spots[j])
                    /\ ret_spots[j].confidence >= arg_spots[i].confidence

\* number of occurrences of a record in a list
Occurrences(list, x) == Cardinality({i \in 1..Len(list) : list[i] = x})

\* C29: the output holds only records of the input, unchanged and each at
\* most as often as the input has it; each processed record makes the
\* accepted list at most one longer, and the output is never longer than
\* the input.
C29_OutputIsSubListOfInput ==
    pc = "deduplicated" =>
        /\ \A j \in 1..Len(ret_spots) :
                /\ ret_spots[j] \in Range(arg_spots)
                /\ Occurrences(ret_spots, ret_spots[j])
                        <= Occurrences(arg_spots, ret_spots[j])
        /\ \A k \in 1..Len(arg_spots) :
                Len(AcceptedAfter(k)) <= Len(AcceptedAfter(k - 1)) + 1
        /\ Len(ret_spots) <= Len(arg_spots)

\* a replacement: the output is shorter than the input and ends with the
\* replacing record as the input has it
C29_Witness ==
    /\ pc = "deduplicated"
    /\ Len(arg_spots) = 3
    /\ Len(ret_spots) = 2
    /\ ret_spots[2] = arg_spots[3]
    /\ ret_spots[1] = arg_spots[2]
    /\ arg_spots[3].latitude # arg_spots[1].latitude
    /\ Within100m(arg_spots[3], arg_spots[1])

----------------------------------------------------------------------------
(* Cache hits and cached empty sets, under Spec *)

\* C24: a search that is a cache hit leaves the cache as it was: the entry
\* of its key keeps its records, their order and its timestamp, and so
\* does every other entry.
C24_HitLeavesCacheUnchanged ==
    [][ (trace'.call # trace.call /\ trace'.hit) =>
            /\ cache' = cache
            /\ cache'[trace'.key].timestamp = trace'.entry_timestamp
            /\ cache'[trace'.key].data = trace'.unique_spots ]_vars

\* a hit, some time after the store, that filtered a record out of the
\* two cached ones, which are still cached with the old timestamp
C24_Witness ==
    /\ trace.hit
    /\ trace.lookup_time = trace.entry_timestamp + 3599
    /\ Len(trace.unique_spots) = 2
    /\ Len(trace.spots) = 1
    /\ cache[trace.key] = [data |-> trace.unique_spots,
                           timestamp |-> trace.entry_timestamp]

\* C30: a miss on which all connectors return nothing stores the empty
\* list, and a search that finds an empty list less than 3600 seconds old
\* under its key returns an empty list and invokes no connector, whatever
\* the sources would answer.
C30_EmptySetIsCached ==
    [][ /\ (/\ trace'.call # trace.call
            /\ trace'.cache_read
            /\ ~trace'.hit
            /\ ~trace'.raised
            /\ trace'.all_spots = <<>>)
           => /\ trace'.key \in DOMAIN cache'
              /\ cache'[trace'.key] = [data |-> <<>>, timestamp |-> now']
        /\ (/\ trace'.call # trace.call
            /\ trace'.cache_read
            /\ trace'.key \in DOMAIN cache
            /\ cache[trace'.key].data = <<>>
            /\ trace'.lookup_time - cache[trace'.key].timestamp < 3600)
           => /\ trace'.spots = <<>>
              /\ trace'.invoked = <<>>
              /\ result'.status = "no_results"
              /\ cache' = cache ]_vars

\* a hit on an empty list stored 3599 seconds earlier
C30_Witness ==
    /\ trace.hit
    /\ trace.unique_spots = <<>>
    /\ trace.spots = <<>>
    /\ trace.invoked = <<>>
    /\ trace.lookup_time = trace.entry_timestamp + 3599
    /\ result.status = "no_results"

----------------------------------------------------------------------------
(* Searches in which a step of find_parking_spots raises *)

\* a Google place whose coordinates are null: _parse_google_place passes
\* them on as they are
BadGoogleSpot ==
    ScrapedParkingSpot("Unnamed location", NotANumber, NotANumber, None,
                       None, FALSE, FALSE, "Google Places", 70)

ErrorHeights == {28, NotANumber}

ErrorGeocodeAnswers == {None, <<6016990, 2493840>>, <<6017500, 2493000>>}

ErrorGoogleAnswers == {<<>>, <<GoogleSpot>>, <<BadGoogleSpot>>}

SearchParkingErrors ==
    \E height \in ErrorHeights, coords \in ErrorGeocodeAnswers,
       osm \in OsmAnswers, google \in ErrorGoogleAnswers :
        search_parking("Helsinki", height, 35, 70, FALSE, FALSE, 10,
                       coords, osm, google, <<>>, 0)

NextErrors == SearchParkingErrors

SpecErrors == Init /\ [][NextErrors]_vars

\* C26 as stated: whenever a step of find_parking_spots raises,
\* search_parking returns status "error" and the cache is exactly as it
\* was before the search.
C26_ErrorLeavesCacheUntouched ==
    [][ (trace'.call # trace.call /\ trace'.raised) =>
            /\ result'.status = "error"
            /\ cache' = cache ]_vars

\* C26, amended: search_parking always returns a result; a geocoder
\* failure gives "no_results"; when a connector, deduplication or the
\* filter raises the status is "error"; the cache is as before when a
\* connector or deduplication raised or the filter raised on a hit, but
\* when the filter raises on a miss the deduplicated set has been stored
\* under the key.
C26_ErrorStoresOnlyWhenFilterRaisesOnMiss ==
    [][ trace'.call # trace.call =>
            /\ result'.status \in {"success", "no_results", "error"}
            /\ result'.status = "error" <=> trace'.raised
            /\ ~trace'.geocoded =>
                    result'.status = "no_results" /\ cache' = cache
            /\ (trace'.raised /\ trace'.hit) => cache' = cache
            /\ (trace'.raised /\ trace'.invoked = <<"osm">>) =>
                    cache' = cache
            /\ (/\ trace'.raised
                /\ Len(trace'.invoked) = 3
                /\ DedupRaises(trace'.all_spots)) => cache' = cache
            /\ (/\ trace'.raised
                /\ Len(trace'.invoked) = 3
                /\ ~DedupRaises(trace'.all_spots)) =>
                    /\ default_params'.height = NotANumber
                    /\ DOMAIN cache' = DOMAIN cache \cup {trace'.key}
                    /\ cache'[trace'.key] =
                            [data |-> _deduplicate_spots(trace'.all_spots),
                             timestamp |-> now']
                    /\ \A k \in DOMAIN cache \ {trace'.key} :
                            cache'[k] = cache[k] ]_vars

\* the filter raised on a miss: the status is "error" and the record of
\* this search is in the cache
C26_Witness ==
    /\ trace.raised
    /\ ~trace.hit
    /\ ~trace.present
    /\ trace.invoked = <<"osm", "google", "city">>
    /\ result.status = "error"
    /\ trace.key \in DOMAIN cache
    /\ cache[trace.key].data = <<OsmSpot>>

----------------------------------------------------------------------------
(* DynamicCamperParkingAI._display_results and retry_with_larger_radius *)

\* what the user types at the radius prompt: nothing, a number of km, or
\* text that float() rejects
RetryRadii == {5, 10, 20, 40}

AdjustRadiusInputs ==
    {None, Some(NotANumber)} \cup {Some(r) : r \in RetryRadii}

RetryGeocodeAnswers == {None, <<6016990, 2493840>>}

RetryOsmAnswers == {<<>>, <<OsmSpot>>}

retry_with_larger_radius(search_params, new_radius, coords, osm, google, city) ==
    search_parking(search_params.location, search_params.height,
                   search_params.weight, search_params.length,
                   search_params.needs_facilities,
                   search_params.needs_overnight, new_radius,
                   coords, osm, google, city, 0)

\* _display_results retrying also when the radius entered equals the
\* current one
_display_results_AcceptsEqual(results, adjust_radius, coords, osm, google, city) ==
    IF /\ results.status = "no_results"
       /\ Truthy(adjust_radius)
       /\ adjust_radius[1] # NotANumber
       /\ adjust_radius[1] >= results.current_params.radius_km
    THEN retry_with_larger_radius(results.current_params, adjust_radius[1],
                                  coords, osm, google, city)
    ELSE UNCHANGED vars

_display_results(results, adjust_radius, coords, osm, google, city) ==
    IF /\ results.status = "no_results"
       /\ Truthy(adjust_radius)
       /\ adjust_radius[1] # NotANumber
       /\ adjust_radius[1] > results.current_params.radius_km
    THEN retry_with_larger_radius(results.current_params, adjust_radius[1],
                                  coords, osm, google, city)
    ELSE UNCHANGED vars

\* a search entered at the menu; a "no_results" outcome is shown, and its
\* radius prompt answered, before the menu takes the next search
MenuSearch ==
    /\ result.status # "no_results"
    /\ \E height \in SearchHeights, coords \in RetryGeocodeAnswers,
          osm \in RetryOsmAnswers :
            search_parking("Helsinki", height, 35, 70, FALSE, TRUE, 10,
                           coords, osm, <<>>, <<>>, 0)

DisplayResults ==
    /\ result.status # "none"
    /\ \E adjust_radius \in AdjustRadiusInputs,
          coords \in RetryGeocodeAnswers, osm \in RetryOsmAnswers :
            _display_results(result, adjust_radius, coords, osm, <<>>, <<>>)

NextRetry == MenuSearch \/ DisplayResults

SpecRetry == Init /\ [][NextRetry]_vars

\* C25: after a "no_results" outcome a search is issued only with a
\* radius strictly larger than the radius of the failed search, and that
\* search has the location, height, weight, length, needs_facilities and
\* needs_overnight of the failed one, with only radius_km replaced (also
\* in the cache key it looks up); an answer that is not a larger radius
\* changes nothing.
C25_RetryOnlyWithLargerRadius ==
    [][ result.status = "no_results" =>
            /\ trace'.call # trace.call
            /\ default_params'.radius_km > result.current_params.radius_km
            /\ default_params' = [result.current_params EXCEPT
                    !.radius_km = default_params'.radius_km]
            /\ trace'.geocoded =>
                    trace'.key = CacheKey(trace'.coords[1], trace'.coords[2],
                                          default_params'.radius_km)
            /\ result'.status = "no_results" =>
                    result'.current_params = default_params' ]_vars

\* a retry with 40 km after a failed retry with 20 km found a spot
C25_Witness ==
    /\ result.status = "success"
    /\ default_params.radius_km = 40
    /\ CacheKey(6016990, 2493840, 20) \in DOMAIN cache
    /\ cache[CacheKey(6016990, 2493840, 20)].data = <<>>

====
